---- MODULE Spec2Model ----
(***************************************************************************)
(* Model of src/utils.py: the generator-based context manager              *)
(*                                                                         *)
(*     @contextmanager                                                     *)
(*     def timed(msg='', width=40):                                        *)
(*         start = perf_counter()                                          *)
(*         yield lambda: stop - start                                      *)
(*         stop = perf_counter()                                           *)
(*         print(f"{msg:<{width}}{stop - start:.3f}s")                     *)
(*                                                                         *)
(* A session is one `with timed(...) as t:` statement.  Time is counted in *)
(* whole milliseconds of a simulated monotonic clock.  Text is a sequence  *)
(* of one-character strings.                                               *)
(***************************************************************************)
EXTENDS Integers, Sequences, FiniteSets

\* ------------------------------------------------------------------ bounds
MaxLabelLen == 2
MaxWidth == 3
MaxTicks == 3
MaxPairTicks == 2

\* ------------------------------------------------------- program constants
\* def timed(msg='', width=40)
DefaultMsg == << >>
DefaultWidthOff == 40 - 1

DefaultWidth == 40
\* the closure cell of `stop` (and of `start`) before its assignment runs
Unbound == -1

Sessions == {1, 2}
Chars == {"a", "b"}
Labels == UNION {[1..n -> Chars] : n \in 0..MaxLabelLen}
Widths == 0..MaxWidth
\* the arguments tried when two sessions overlap
PairLabels == {<<"a">>, <<"b", "b", "b">>}
PairWidths == {2}
\* errors the wrapped block can raise by itself
Errors == {"KeyError", "StopIteration"}
\* the error of reading a free variable that has no value yet
NameError == "NameError"
\* amounts by which the monotonic clock advances between two reads
Jumps == {1, 999}

VARIABLES
    clock,      \* value the next perf_counter() call returns
    ticks,      \* number of clock advances so far
    pc,         \* pc[s]: where session s is
    msg,        \* msg[s]: the generator's argument msg
    width,      \* width[s]: the generator's argument width
    start,      \* start[s]: the generator's local start
    stop,       \* stop[s]: the generator's local stop
    err,        \* err[s]: the error the wrapped block raised
    caught,     \* caught[s]: the error the caller of the with-statement sees
    out,        \* standard output: the lines written, oldest first
    calls,      \* calls[s]: outcomes of the calls of the elapsed accessor
    dur,        \* dur[s]: time that passed while the wrapped block ran
    defaulted   \* defaulted[s]: the session was opened as timed()

vars == <<clock, ticks, pc, msg, width, start, stop, err, caught, out, calls,
          dur, defaulted>>

\* ------------------------------------------------------------- formatting
DigitChars == <<"0", "1", "2", "3", "4", "5", "6", "7", "8", "9">>

Digit(d) == DigitChars[d + 1]

RECURSIVE IntDigits(_)
IntDigits(n) ==
    IF n < 10 THEN <<Digit(n)>>
    ELSE IntDigits(n \div 10) \o <<Digit(n % 10)>>

Spaces(n) == [i \in 1..n |-> " "]

\* f"{msg:<{width}}"
LJustTruncating(m, w) ==
    IF Len(m) >= w THEN SubSeq(m, 1, w) ELSE m \o Spaces(w - Len(m))

LJust(m, w) == m \o Spaces(w - Len(m))

\* f"{x:.3f}" of x = ms / 1000 seconds
FormatFixed2(ms) ==
    IntDigits(ms \div 1000)
        \o <<".", Digit((ms \div 100) % 10), Digit((ms \div 10) % 10)>>

FormatFixed3(ms) ==
    IntDigits(ms \div 1000)
        \o <<".", Digit((ms \div 100) % 10), Digit((ms \div 10) % 10),
             Digit(ms % 10)>>

\* f"{msg:<{width}}{stop - start:.3f}s"
FormatLine(m, w, st, sp) == LJust(m, w) \o FormatFixed3(sp - st) \o <<"s">>

\* lambda: stop - start
AccessorZeroWhenEarly(st, sp) ==
    IF sp = Unbound THEN [ok |-> TRUE, val |-> 0]
    ELSE [ok |-> TRUE, val |-> sp - st]

Accessor(st, sp) ==
    IF sp = Unbound THEN [ok |-> FALSE, val |-> 0]
    ELSE [ok |-> TRUE, val |-> sp - st]

\* what leaves the with-statement when error e was thrown into the generator
\* at its yield: nothing in the generator handles it, it comes back out of
\* gen.throw() as the same object, and __exit__ returns False
Swallowed(e) == "none"

Thrown(e) == e

\* ------------------------------------------------------------------- state
Init ==
    /\ clock = 0
    /\ ticks = 0
    /\ pc = [s \in Sessions |-> "idle"]
    /\ msg = [s \in Sessions |-> DefaultMsg]
    /\ width = [s \in Sessions |-> DefaultWidth]
    /\ start = [s \in Sessions |-> Unbound]
    /\ stop = [s \in Sessions |-> Unbound]
    /\ err = [s \in Sessions |-> "none"]
    /\ caught = [s \in Sessions |-> "none"]
    /\ out = << >>
    /\ calls = [s \in Sessions |-> {}]
    /\ dur = [s \in Sessions |-> 0]
    /\ defaulted = [s \in Sessions |-> FALSE]

\* time passes; every block that is running takes that much longer
Tick(d, T) ==
    /\ ticks < T
    /\ ticks' = ticks + 1
    /\ clock' = clock + d
    /\ dur' = [s \in Sessions |->
                 IF pc[s] = "running" THEN dur[s] + d ELSE dur[s]]
    /\ UNCHANGED <<pc, msg, width, start, stop, err, caught, out, calls,
                   defaulted>>

\* timed(m, w).__enter__(): bind the arguments, run to the yield
BindSharedStart(s, m, w) ==
    /\ pc[s] = "idle"
    /\ pc' = [pc EXCEPT ![s] = "running"]
    /\ msg' = [msg EXCEPT ![s] = m]
    /\ width' = [width EXCEPT ![s] = w]
    /\ start' = [t \in Sessions |-> clock]
    /\ UNCHANGED <<clock, ticks, stop, err, caught, out, calls, dur>>

BindEagerStop(s, m, w) ==
    /\ pc[s] = "idle"
    /\ pc' = [pc EXCEPT ![s] = "running"]
    /\ msg' = [msg EXCEPT ![s] = m]
    /\ width' = [width EXCEPT ![s] = w]
    /\ start' = [start EXCEPT ![s] = clock]
    /\ stop' = [stop EXCEPT ![s] = clock]
    /\ UNCHANGED <<clock, ticks, err, caught, out, calls, dur>>

Bind(s, m, w) ==
    /\ pc[s] = "idle"
    /\ pc' = [pc EXCEPT ![s] = "running"]
    /\ msg' = [msg EXCEPT ![s] = m]
    /\ width' = [width EXCEPT ![s] = w]
    /\ start' = [start EXCEPT ![s] = clock]
    /\ UNCHANGED <<clock, ticks, stop, err, caught, out, calls, dur>>

\* with timed(m, w) as t:
Enter(s, m, w) ==
    /\ Bind(s, m, w)
    /\ defaulted' = [defaulted EXCEPT ![s] = FALSE]

\* with timed() as t:
EnterDefault(s) ==
    /\ Bind(s, DefaultMsg, DefaultWidth)
    /\ defaulted' = [defaulted EXCEPT ![s] = TRUE]

\* the wrapped block raises e
BlockRaise(s, e) ==
    /\ pc[s] = "running"
    /\ pc' = [pc EXCEPT ![s] = "raised"]
    /\ err' = [err EXCEPT ![s] = e]
    /\ UNCHANGED <<clock, ticks, msg, width, start, stop, caught, out, calls,
                   dur, defaulted>>

\* t() is called: by the wrapped block while it runs (which handles the
\* error of the call or not), or by the caller after the with-statement
CallAccessorNow(s, handled) ==
    /\ pc[s] \in {"running", "exited", "failed"}
    /\ pc[s] # "running" => handled
    /\ calls' = [calls EXCEPT ![s] = @ \cup
                   {[phase |-> pc[s], ok |-> TRUE, val |-> clock - start[s]]}]
    /\ UNCHANGED <<clock, ticks, pc, msg, width, start, stop, err, caught,
                   out, dur, defaulted>>

CallAccessor(s, handled) ==
    /\ pc[s] \in {"running", "exited", "failed"}
    /\ pc[s] # "running" => handled
    /\ LET r == Accessor(start[s], stop[s]) IN
        /\ calls' = [calls EXCEPT ![s] = @ \cup
                       {[phase |-> pc[s], ok |-> r.ok, val |-> r.val]}]
        /\ IF ~r.ok /\ ~handled
           THEN /\ pc' = [pc EXCEPT ![s] = "raised"]
                /\ err' = [err EXCEPT ![s] = NameError]
           ELSE UNCHANGED <<pc, err>>
    /\ UNCHANGED <<clock, ticks, msg, width, start, stop, caught, out, dur,
                   defaulted>>

\* __exit__(type, value, tb) with an error: gen.throw(value)
ExitOnError(s) ==
    /\ pc[s] = "raised"
    /\ pc' = [pc EXCEPT ![s] = "failed"]
    /\ caught' = [caught EXCEPT ![s] = Thrown(err[s])]
    /\ UNCHANGED <<clock, ticks, msg, width, start, stop, err, out, calls,
                   dur, defaulted>>

\* __exit__(None, None, None): next(gen) resumes after the yield;
\* stop = perf_counter()
BlockFinish(s) ==
    /\ pc[s] = "running"
    /\ pc' = [pc EXCEPT ![s] = "stopped"]
    /\ stop' = [stop EXCEPT ![s] = clock]
    /\ UNCHANGED <<clock, ticks, msg, width, start, err, caught, out, calls,
                   dur, defaulted>>

\* print(f"{msg:<{width}}{stop - start:.3f}s"); the generator ends
WriteSummary(s) ==
    /\ pc[s] = "stopped"
    /\ pc' = [pc EXCEPT ![s] = "exited"]
    /\ out' = Append(out, [sid |-> s,
                           text |-> FormatLine(msg[s], width[s],
                                               start[s], stop[s])])
    /\ UNCHANGED <<clock, ticks, msg, width, start, stop, err, caught, calls,
                   dur, defaulted>>

\* the steps of the sessions S, opened with labels from L and widths from W,
\* while the clock advances at most T times
Step(S, L, W, T) ==
    \/ \E d \in Jumps : Tick(d, T)
    \/ \E s \in S, m \in L, w \in W : Enter(s, m, w)
    \/ \E s \in S : EnterDefault(s)
    \/ \E s \in S, e \in Errors : BlockRaise(s, e)
    \/ \E s \in S, h \in BOOLEAN : CallAccessor(s, h)
    \/ \E s \in S : ExitOnError(s)
    \/ \E s \in S : BlockFinish(s)
    \/ \E s \in S : WriteSummary(s)

\* one with-statement, every label and width
Next == Step({1}, Labels, Widths, MaxTicks)

Spec == Init /\ [][Next]_vars

\* two with-statements whose steps interleave in every order (nested in one
\* thread, or one per thread)
NextPair == Step(Sessions, PairLabels, PairWidths, MaxPairTicks)

SpecPair == Init /\ [][NextPair]_vars

\* ------------------------------------------------- reading the output back
LinesOf(s) == {i \in DOMAIN out : out[i].sid = s}

Max(a, b) == IF a >= b THEN a ELSE b

IsDigit(c) == \E d \in 0..9 : DigitChars[d + 1] = c

DigitValue(c) == CHOOSE d \in 0..9 : DigitChars[d + 1] = c

RECURSIVE DigitsValue(_)
DigitsValue(ds) ==
    IF Len(ds) = 0 THEN 0
    ELSE DigitsValue(SubSeq(ds, 1, Len(ds) - 1)) * 10 + DigitValue(ds[Len(ds)])

\* what follows the first n characters of line l
After(l, n) == SubSeq(l, n + 1, Len(l))

\* e reads <digits>.<three digits>s
ThreeDecimalsAndS(e) ==
    /\ Len(e) >= 6
    /\ e[Len(e)] = "s"
    /\ e[Len(e) - 4] = "."
    /\ \A i \in 1..Len(e) : i \notin {Len(e), Len(e) - 4} => IsDigit(e[i])

\* the milliseconds such a text stands for
ElapsedMillis(e) ==
    DigitsValue(SubSeq(e, 1, Len(e) - 5)) * 1000
        + DigitsValue(SubSeq(e, Len(e) - 3, Len(e) - 1))

\* the elapsed text of line i of the output
ElapsedOf(i) ==
    After(out[i].text, Max(Len(msg[out[i].sid]), width[out[i].sid]))

Left(s) == pc[s] \in {"exited", "failed"}

\* ------------------------------------------------------------------ claims

\* C1: every scoped use writes exactly one output line, whether the wrapped
\* block completed normally or raised an error.
C1_ExactlyOneLinePerUse ==
    \A s \in Sessions : Left(s) => Cardinality(LinesOf(s)) = 1

\* C2: if the wrapped block raises, the stop timestamp is captured and the
\* summary line is printed before the error reaches the caller.
C2_StopAndSummaryBeforeErrorPropagates ==
    \A s \in Sessions :
        pc[s] = "failed" => stop[s] # Unbound /\ LinesOf(s) # {}

\* C3: an error raised inside the wrapped block reaches the caller as that
\* same error, and the timer adds no error of its own.
C3_ErrorPropagatesUnchanged ==
    \A s \in Sessions :
        /\ pc[s] = "failed" =>
              caught[s] = err[s] /\ caught[s] \in Errors \cup {NameError}
        /\ pc[s] # "failed" => caught[s] = "none"
        /\ pc[s] = "exited" => err[s] = "none"

C3_Witness == pc[1] = "failed" /\ caught[1] = "KeyError"

\* C4: the elapsed value of a printed line reads <digits>.<three digits>s and
\* is stop - start, which is the time D the wrapped block took, D >= 0.
C4_ElapsedPrintedToThreeDecimals ==
    \A i \in DOMAIN out :
        LET s == out[i].sid IN
        /\ ThreeDecimalsAndS(ElapsedOf(i))
        /\ ElapsedMillis(ElapsedOf(i)) = stop[s] - start[s]
        /\ stop[s] - start[s] = dur[s]
        /\ dur[s] >= 0

C4_Witness ==
    \E i \in DOMAIN out : dur[out[i].sid] > 1000 /\ dur[out[i].sid] % 1000 # 0

\* C5: the label field of a printed line starts with the label, is padded on
\* the right with spaces and is max(len(label), column_width) long; a label
\* longer than column_width is printed in full.
C5_LabelFieldPaddedNeverTruncated ==
    \A i \in DOMAIN out :
        LET s == out[i].sid
            l == out[i].text
            n == Max(Len(msg[s]), width[s])
        IN  /\ Len(l) > n
            /\ SubSeq(l, 1, Len(msg[s])) = msg[s]
            /\ \A k \in (Len(msg[s]) + 1)..n : l[k] = " "
            /\ IsDigit(l[n + 1])

C5_Witness ==
    \E i \in DOMAIN out :
        Len(msg[out[i].sid]) > width[out[i].sid] /\ width[out[i].sid] > 0

\* C6: timed() with no arguments takes label '' and column_width 40: its
\* line is 40 spaces followed by the elapsed value.
C6_DefaultsAreEmptyLabelAndWidth40 ==
    \A s \in Sessions :
        defaulted[s] /\ pc[s] # "idle" =>
            /\ msg[s] = << >>
            /\ width[s] = 40
            /\ \A i \in LinesOf(s) :
                  /\ Len(out[i].text) > 40
                  /\ SubSeq(out[i].text, 1, 40) = [k \in 1..40 |-> " "]
                  /\ ThreeDecimalsAndS(After(out[i].text, 40))
                  /\ ElapsedMillis(After(out[i].text, 40)) = stop[s] - start[s]

C6_Witness == defaulted[1] /\ LinesOf(1) # {} /\ stop[1] - start[1] = 999

\* C7: start_time is assigned before the wrapped block runs, stop_time only
\* after the block has finished, the line only after stop_time; stop_time is
\* never set while the block is still running.
C7_StartBeforeBlockStopAfterBlockLineAfterStop ==
    \A s \in Sessions :
        /\ pc[s] # "idle" => start[s] # Unbound
        /\ pc[s] \in {"idle", "running", "raised"} => stop[s] = Unbound
        /\ stop[s] # Unbound =>
              pc[s] \in {"stopped", "exited"} /\ start[s] <= stop[s]
        /\ LinesOf(s) # {} => stop[s] # Unbound /\ pc[s] = "exited"
        /\ pc[s] = "stopped" => LinesOf(s) = {}

C7_Witness ==
    pc[1] = "exited" /\ LinesOf(1) # {} /\ start[1] > 0 /\ stop[1] > start[1]

\* C8: a call of the elapsed accessor while the wrapped block runs never
\* returns a duration; it ends in an error, which leaves the scope like any
\* other error of the block when the block does not handle it.
C8_EarlyAccessorCallFails ==
    \A s \in Sessions :
        /\ \A c \in calls[s] : c.phase = "running" => ~c.ok
        /\ err[s] = NameError =>
              /\ pc[s] \in {"raised", "failed"}
              /\ [phase |-> "running", ok |-> FALSE, val |-> 0] \in calls[s]
        /\ caught[s] = NameError =>
              pc[s] = "failed" /\ stop[s] = Unbound /\ LinesOf(s) = {}

C8_Witness ==
    /\ pc[1] = "failed"
    /\ caught[1] = NameError
    /\ clock > start[1]

\* C9: after a normal exit every call of the accessor returns the same
\* value, the stop - start of the summary line, and start_time and stop_time
\* are never assigned again.
C9_AccessorStableAfterExit ==
    /\ [](\A s \in Sessions :
            pc[s] = "exited" =>
                \A c \in calls[s] :
                    c.phase = "exited" =>
                        /\ c.ok
                        /\ c.val = stop[s] - start[s]
                        /\ \A i \in LinesOf(s) :
                              ElapsedMillis(ElapsedOf(i)) = c.val)
    /\ [][\A s \in Sessions :
            pc[s] = "exited" =>
                /\ pc'[s] = "exited"
                /\ start'[s] = start[s]
                /\ stop'[s] = stop[s]]_vars

C9_Witness ==
    /\ pc[1] = "exited"
    /\ stop[1] > start[1]
    /\ clock > stop[1]
    /\ \E c \in calls[1] : c.phase = "exited" /\ c.ok

\* C10: overlapping sessions are independent: each one's printed elapsed
\* value and accessor result are its own stop - start, and a step of one
\* session changes no start_time, stop_time, label or column_width of the
\* other.
C10_SessionsIndependent ==
    /\ [](/\ \A i \in DOMAIN out :
               LET s == out[i].sid IN
               /\ ElapsedMillis(ElapsedOf(i)) = stop[s] - start[s]
               /\ stop[s] - start[s] = dur[s]
          /\ \A s \in Sessions : \A c \in calls[s] :
               c.ok => c.val = stop[s] - start[s] /\ c.val = dur[s])
    /\ [][\A s \in Sessions :
            pc'[s] = pc[s] =>
                /\ start'[s] = start[s]
                /\ stop'[s] = stop[s]
                /\ msg'[s] = msg[s]
                /\ width'[s] = width[s]]_vars

C10_Witness ==
    /\ Len(out) = 2
    /\ start[1] < start[2]
    /\ start[2] < stop[1]
    /\ stop[1] - start[1] # stop[2] - start[2]
    /\ msg[1] # msg[2]
    /\ \E c \in calls[2] : c.ok

====
